---- MODULE Spec2Model ----
(***************************************************************************)
(* Model of pyblish/logic.py: the generator `process`, the registered      *)
(* test (`register_test`, `deregister_test`, `default_test`) and the       *)
(* compatibility filters (`plugins_by_family`, `plugins_by_host`,          *)
(* `instances_by_plugin`).                                                 *)
(*                                                                         *)
(* `process` is a Python generator function: calling it only creates the   *)
(* generator (action Call); its body runs when the consumer pulls (action  *)
(* Pull), from the point where it was suspended up to the next `yield`,    *)
(* the end of the function, or an exception leaving the generator.         *)
(***************************************************************************)
EXTENDS Integers, Sequences, FiniteSets, TLC

\* Bounds of the model.
MaxPlugins == 2      \* longest plug-in list given to process
MaxInstances == 2    \* most instances in the context

None == "None"
Wildcard == "*"
NoOrder == 0 - 1     \* vars["order"] before the first plug-in (None)

Orders == {1, 2}                \* 1 = validation, 2 = extraction
Families == {"a", "b"}          \* families of instances
Tests == {"default_test", "my_test", "stop_test", "clean_test"}
RunIds == {"A", "B"}

VARIABLES
    plugins,          \* the resolved `plugins` argument: a list of plug-ins
    context,          \* the instances of the context, in order
    ctxCallable,      \* whether the `context` argument is a callable
    registered_test,  \* pyblish._registered_test
    next_plugin,      \* process.next_plugin: index into plugins, 0 = None
    next_instance,    \* process.next_instance: instance id, 0 = None
    runs,             \* per generator: its frame and what it has done
    pure              \* a call of one of the pure functions

vars == <<plugins, context, ctxCallable, registered_test, next_plugin,
          next_instance, runs, pure>>

----------------------------------------------------------------------------
\* Python `x in s` for a list s.
In(x, s) == \E k \in 1..Len(s) : s[k] = x

\* All lists over S of length at most n.
SeqUpTo(S, n) == UNION {[1..k -> S] : k \in 0..n}

----------------------------------------------------------------------------
\* default_test(**vars), lines 32-36.
RECURSIVE default_test_loop(_, _)
default_test_loop(errorOrders, k) ==
    IF k > Len(errorOrders) THEN TRUE
    ELSE IF errorOrders[k] < 2 THEN FALSE
    ELSE default_test_loop(errorOrders, k + 1)

\* default_test with the validation order compared by > instead of >=.
default_test_gt(order, errorOrders) ==
    IF order > 2 THEN default_test_loop(errorOrders, 1) ELSE TRUE

default_test(order, errorOrders) ==
    IF order >= 2 THEN default_test_loop(errorOrders, 1) ELSE TRUE

\* The custom test of register_test's example: `return 1`.
my_test(order, errorOrders) == TRUE

\* A caller's test that lets no plug-in past validation run:
\* `return vars["order"] < 2`.
stop_test(order, errorOrders) == order < 2

\* A caller's test that stops the run at the first plug-in after an error:
\* `return not vars["errorOrders"]`.
clean_test(order, errorOrders) == Len(errorOrders) = 0

\* test(**vars) for the test named t.
CallTest(t, order, errorOrders) ==
    CASE t = "default_test" -> default_test(order, errorOrders)
      [] t = "my_test" -> my_test(order, errorOrders)
      [] t = "stop_test" -> stop_test(order, errorOrders)
      [] t = "clean_test" -> clean_test(order, errorOrders)

----------------------------------------------------------------------------
\* any(x in plugin.families for x in (family, "*"))
AnyIn(tags, tag) == In(tag, tags) \/ In(Wildcard, tags)

\* instances_by_plugin(instances, plugin), lines 304-314.
RECURSIVE instances_by_plugin_loop(_, _, _, _)
instances_by_plugin_loop(instances, plugin, k, compatible) ==
    IF k > Len(instances) THEN compatible
    ELSE IF ~plugin.hasFamilies
         THEN instances_by_plugin_loop(instances, plugin, k + 1, compatible)
    ELSE IF AnyIn(plugin.families, instances[k].family)
         THEN instances_by_plugin_loop(instances, plugin, k + 1,
                                       Append(compatible, instances[k]))
    ELSE instances_by_plugin_loop(instances, plugin, k + 1, compatible)

\* instances_by_plugin without the wildcard of line 311.
instances_by_plugin_exact(instances, plugin) ==
    IF plugin.hasFamilies
    THEN SelectSeq(instances, LAMBDA x : In(x.family, plugin.families))
    ELSE <<>>

instances_by_plugin(instances, plugin) ==
    instances_by_plugin_loop(instances, plugin, 1, <<>>)

\* plugins_by_family without the wildcard of line 243.
plugins_by_family_exact(plugs, family) ==
    SelectSeq(plugs, LAMBDA p : p.hasFamilies /\ In(family, p.families))

\* plugins_by_family(plugins, family), lines 237-246.
RECURSIVE plugins_by_family_loop(_, _, _, _)
plugins_by_family_loop(plugs, family, k, compatible) ==
    IF k > Len(plugs) THEN compatible
    ELSE IF ~plugs[k].hasFamilies
         THEN plugins_by_family_loop(plugs, family, k + 1, compatible)
    ELSE IF AnyIn(plugs[k].families, family)
         THEN plugins_by_family_loop(plugs, family, k + 1,
                                     Append(compatible, plugs[k]))
    ELSE plugins_by_family_loop(plugs, family, k + 1, compatible)

plugins_by_family(plugs, family) ==
    plugins_by_family_loop(plugs, family, 1, <<>>)

\* plugins_by_host(plugins, host), lines 276-286.
RECURSIVE plugins_by_host_loop(_, _, _, _)
plugins_by_host_loop(plugs, host, k, compatible) ==
    IF k > Len(plugs) THEN compatible
    ELSE IF ~plugs[k].hasHosts
         THEN plugins_by_host_loop(plugs, host, k + 1, compatible)
    ELSE IF AnyIn(plugs[k].hosts, host)
         THEN plugins_by_host_loop(plugs, host, k + 1,
                                   Append(compatible, plugs[k]))
    ELSE plugins_by_host_loop(plugs, host, k + 1, compatible)

plugins_by_host(plugs, host) ==
    plugins_by_host_loop(plugs, host, 1, <<>>)

\* Provider.args(plugin.process): the parameter names the plug-in's process
\* declares.
Provider_args(plugin) == plugin.args

\* gen(instances), lines 119-125: the instances, or None once when there are
\* none.
NoneInstance == [id |-> 0, family |-> None]
gen(instances) ==
    IF Len(instances) > 0 THEN instances ELSE <<NoneInstance>>

\* ResolveTest defaulting to default_test instead of the registered test.
ResolveTest_default(test, registered) ==
    IF test = None THEN "default_test" ELSE test

\* Lines 113-114: the test the run uses.
ResolveTest(test, registered) ==
    IF test = None THEN registered ELSE test

\* RecordError without the `not in` check of line 168.
RecordError_append(errorOrders, order) == Append(errorOrders, order)

\* Lines 167-169: note the order at which an error occurred.
RecordError(errorOrders, order) ==
    IF ~In(order, errorOrders) THEN Append(errorOrders, order) ELSE errorOrders

\* DiscardPlugin without the wildcard check of line 147.
DiscardPlugin_no_wildcard(instances, plugin) ==
    IF Len(instances) # 0 THEN "no"
    ELSE IF ~plugin.hasFamilies THEN "AttributeError"
    ELSE "yes"

\* DiscardPlugin without the `continue` of line 148: no plug-in that has
\* families is discarded.
DiscardPlugin_never(instances, plugin) ==
    IF Len(instances) # 0 THEN "no"
    ELSE IF ~plugin.hasFamilies THEN "AttributeError"
    ELSE "no"

\* Line 147: `not instances and "*" not in plugin.families`; reading
\* plugin.families raises AttributeError when the attribute is missing.
DiscardPlugin(instances, plugin) ==
    IF Len(instances) # 0 THEN "no"
    ELSE IF ~plugin.hasFamilies THEN "AttributeError"
    ELSE IF ~In(Wildcard, plugin.families) THEN "yes"
    ELSE "no"

\* BreakAfterCall without the `break` of line 176.
BreakAfterCall_never(plugin) == FALSE

\* Lines 174-176: leave the instance loop after the first call.
BreakAfterCall(plugin) == "instance" \notin Provider_args(plugin)

----------------------------------------------------------------------------
\* The frame of a generator (the locals of process), and a record of what the
\* run has done so far.
\*   pc: "none" (process not called), "created" (called, body not started),
\*       "yielded" (suspended at line 162 or 170), "failed" (suspended at
\*       line 179), "done" (returned), "raised" (an exception left it).
\*   test, i, items, j, order, errorOrders, ctx: the locals test, plugin (as
\*       its position in plugins), the instances gen iterates, the position
\*       of instance in them, vars["order"], vars["errorOrders"], context.
\*   testArg, regAtCall, regAtStart: the test argument, and the registered
\*       test when process was called and when its body started.
\*   pulls, ctxCalls: how often the consumer pulled, the context was called.
\*   nevals, ncalls, nouts: per plug-in position, how often the test was
\*       evaluated for it, func was called for it, an outcome of it yielded.
\*   tested, used: per plug-in position, whether the test was evaluated for
\*       it and passed or failed, and which test that was.
\*   erred: per plug-in position, whether a result of it had error set.
\*   nfailed: how many TestFailed were yielded.
\*   last, call: the outcome the last pull yielded and the func call it made.
NoOutcome ==
    [kind |-> "none", plugin |-> 0, instance |-> 0, error |-> FALSE,
     order |-> NoOrder, errorOrders |-> <<>>]

NoCall ==
    [plugin |-> 0, instance |-> 0, context |-> 0, next_plugin |-> 0,
     next_instance |-> 0, res |-> None]

Zeros == [k \in 1..Len(plugins) |-> 0]

NoRun ==
    [pc |-> "none", test |-> None, i |-> 0, items |-> <<>>, j |-> 0,
     order |-> NoOrder, errorOrders |-> <<>>, ctx |-> 0,
     testArg |-> None, regAtCall |-> None, regAtStart |-> None,
     pulls |-> 0, ctxCalls |-> 0,
     nevals |-> Zeros, ncalls |-> Zeros, nouts |-> Zeros, nfailed |-> 0,
     tested |-> [k \in 1..Len(plugins) |-> "no"],
     used |-> [k \in 1..Len(plugins) |-> None],
     erred |-> [k \in 1..Len(plugins) |-> FALSE],
     last |-> NoOutcome, call |-> NoCall]

\* The locals of the frame alone.
Frame(g) ==
    [pc |-> g.pc, test |-> g.test, i |-> g.i, items |-> g.items, j |-> g.j,
     order |-> g.order, errorOrders |-> g.errorOrders, ctx |-> g.ctx]

\* What one resumption works on: the frame g and the module globals.
Machine(g) == [g |-> g, np |-> next_plugin, ni |-> next_instance]

\* Invoke without the try/except of lines 156-162: an exception of func
\* leaves the generator.
Invoke_no_except(m, j, res) ==
    LET g == m.g
        instance == g.items[j]
        call == [plugin |-> g.i, instance |-> instance.id, context |-> g.ctx,
                 next_plugin |-> g.i, next_instance |-> instance.id,
                 res |-> res]
        outcome == [kind |-> "result",
                    plugin |-> g.i, instance |-> instance.id,
                    error |-> (res = "error"),
                    order |-> NoOrder, errorOrders |-> <<>>]
    IN  [g |-> IF res = "raise"
               THEN [g EXCEPT !.pc = "raised",
                              !.j = j,
                              !.call = call,
                              !.ncalls[g.i] = @ + 1]
               ELSE [g EXCEPT !.pc = "yielded",
                              !.j = j,
                              !.call = call,
                              !.ncalls[g.i] = @ + 1,
                              !.erred[g.i] = @ \/ (res = "error"),
                              !.errorOrders =
                                  IF res = "error"
                                  THEN RecordError(@, plugins[g.i].order)
                                  ELSE @,
                              !.last = outcome,
                              !.nouts[g.i] = @ + 1],
         np |-> g.i,
         ni |-> instance.id]

\* Invoke without lines 153-154: the pointers are left as they are when
\* func is called.
Invoke_no_pointers(m, j, res) ==
    LET g == m.g
        plugin == plugins[g.i]
        instance == g.items[j]
        call == [plugin |-> g.i, instance |-> instance.id, context |-> g.ctx,
                 next_plugin |-> m.np, next_instance |-> m.ni,
                 res |-> res]
        outcome == [kind |-> IF res = "raise" THEN "exception" ELSE "result",
                    plugin |-> g.i, instance |-> instance.id,
                    error |-> (res = "error"),
                    order |-> NoOrder, errorOrders |-> <<>>]
    IN  [g |-> [g EXCEPT !.pc = "yielded",
                         !.j = j,
                         !.call = call,
                         !.ncalls[g.i] = @ + 1,
                         !.erred[g.i] = @ \/ (res = "error"),
                         !.errorOrders = IF res = "error"
                                         THEN RecordError(@, plugin.order)
                                         ELSE @,
                         !.last = outcome,
                         !.nouts[g.i] = @ + 1],
         np |-> m.np,
         ni |-> m.ni]

\* Lines 152-170: one call of func for the instance at position j, and the
\* yield of its outcome. res is what func does: "ok" (a result without
\* error), "error" (a result with error set) or "raise".
Invoke(m, j, res) ==
    LET g == m.g
        plugin == plugins[g.i]
        instance == g.items[j]
        call == [plugin |-> g.i, instance |-> instance.id, context |-> g.ctx,
                 next_plugin |-> g.i, next_instance |-> instance.id,
                 res |-> res]
        outcome == [kind |-> IF res = "raise" THEN "exception" ELSE "result",
                    plugin |-> g.i, instance |-> instance.id,
                    error |-> (res = "error"),
                    order |-> NoOrder, errorOrders |-> <<>>]
    IN  [g |-> [g EXCEPT !.pc = "yielded",
                         !.j = j,
                         !.call = call,
                         !.ncalls[g.i] = @ + 1,
                         !.erred[g.i] = @ \/ (res = "error"),
                         !.errorOrders = IF res = "error"
                                         THEN RecordError(@, plugin.order)
                                         ELSE @,
                         !.last = outcome,
                         !.nouts[g.i] = @ + 1],
         np |-> g.i,
         ni |-> instance.id]

\* Abort without the `break` of line 180: the loop goes on with the next
\* plug-in after the TestFailed is yielded.
Abort_no_break(m) ==
    LET g == m.g
        outcome == [kind |-> "TestFailed", plugin |-> 0, instance |-> 0,
                    error |-> FALSE,
                    order |-> g.order, errorOrders |-> g.errorOrders]
    IN  [m EXCEPT !.g = [g EXCEPT !.pc = "yielded",
                                  !.items = <<>>,
                                  !.j = 0,
                                  !.last = outcome,
                                  !.nfailed = @ + 1]]

\* Line 179: yield TestFailed("Test failed", vars).
Abort(m) ==
    LET g == m.g
        outcome == [kind |-> "TestFailed", plugin |-> 0, instance |-> 0,
                    error |-> FALSE,
                    order |-> g.order, errorOrders |-> g.errorOrders]
    IN  [m EXCEPT !.g = [g EXCEPT !.pc = "failed",
                                  !.last = outcome,
                                  !.nfailed = @ + 1]]

\* The instances of context object c. The fixed context is object 0; the
\* k-th call of a callable context returns object k, which holds the first k
\* instances of `context` (a producer whose context is still being filled).
ContextOf(c) ==
    IF c = 0 \/ c >= Len(context) THEN context ELSE SubSeq(context, 1, c)

\* ResolveContext calling the context once, for the first plug-in only.
ResolveContext_once(g) ==
    IF ctxCallable /\ g.ctxCalls = 0
    THEN [g EXCEPT !.ctxCalls = @ + 1, !.ctx = g.ctxCalls + 1]
    ELSE g

\* Lines 141-142: the context of this plug-in. A callable context is called;
\* the k-th call returns context object k, the fixed context is object 0.
ResolveContext(g) ==
    IF ctxCallable
    THEN [g EXCEPT !.ctxCalls = @ + 1, !.ctx = g.ctxCalls + 1]
    ELSE g

\* TestOf reading the registered test again for each plug-in.
TestOf_registered(g) ==
    IF g.testArg = None THEN registered_test ELSE g.test

\* Line 140: the test the loop calls is the local `test`.
TestOf(g) == g.test

\* Lines 137-148, 178-180: the loop from the plug-in at position i on, up to
\* the next yield.
RECURSIVE ForPlugin(_, _, _)
ForPlugin(m, i, res) ==
    IF i > Len(plugins) THEN [m EXCEPT !.g.pc = "done"]
    ELSE
      LET plugin == plugins[i]
          g0 == m.g
          passed == CallTest(TestOf(g0), plugin.order, g0.errorOrders)
          g1 == [g0 EXCEPT !.i = i,
                           !.order = plugin.order,
                           !.nevals[i] = @ + 1,
                           !.used[i] = TestOf(g0),
                           !.tested[i] = IF passed THEN "passed" ELSE "failed"]
      IN  IF ~passed THEN Abort([m EXCEPT !.g = g1])
          ELSE
            LET g2 == ResolveContext(g1)
                instances == instances_by_plugin(ContextOf(g2.ctx), plugin)
                discard == DiscardPlugin(instances, plugin)
            IN  IF discard = "AttributeError"
                THEN [m EXCEPT !.g = [g2 EXCEPT !.pc = "raised"]]
                ELSE IF discard = "yes"
                THEN ForPlugin([m EXCEPT !.g = g2], i + 1, res)
                ELSE Invoke([m EXCEPT !.g = [g2 EXCEPT !.items = gen(instances)]],
                            1, res)

\* Lines 110-135: the start of the body, run by the first pull.
Start(m) ==
    [g |-> [m.g EXCEPT !.test = ResolveTest(@, registered_test),
                       !.regAtStart = registered_test,
                       !.order = NoOrder,
                       !.errorOrders = <<>>],
     np |-> 0,
     ni |-> 0]

\* Resume evaluating the test again before each further instance of the
\* plug-in, and stopping the run when it fails.
Resume_retest(m, res) ==
    LET g == m.g IN
    CASE g.pc = "created" -> ForPlugin(Start(m), 1, res)
      [] g.pc = "failed" -> [m EXCEPT !.g.pc = "done"]
      [] g.pc = "yielded" ->
            IF BreakAfterCall(plugins[g.i]) THEN ForPlugin(m, g.i + 1, res)
            ELSE IF g.j < Len(g.items)
                 THEN IF CallTest(TestOf(g), g.order, g.errorOrders)
                      THEN Invoke(m, g.j + 1, res)
                      ELSE Abort(m)
            ELSE ForPlugin(m, g.i + 1, res)

\* Resume iterating the compatible instances of the context as it is now
\* instead of the list computed at line 144.
Resume_live(m, res) ==
    LET g == m.g
        live == IF g.pc = "yielded"
                THEN gen(instances_by_plugin(ContextOf(g.ctx), plugins[g.i]))
                ELSE <<>>
    IN
    CASE g.pc = "created" -> ForPlugin(Start(m), 1, res)
      [] g.pc = "failed" -> [m EXCEPT !.g.pc = "done"]
      [] g.pc = "yielded" ->
            IF BreakAfterCall(plugins[g.i]) THEN ForPlugin(m, g.i + 1, res)
            ELSE IF g.j < Len(live)
                 THEN Invoke([m EXCEPT !.g.items = live], g.j + 1, res)
            ELSE ForPlugin(m, g.i + 1, res)

\* One next(): the body runs from where it is suspended to its next yield.
Resume(m, res) ==
    LET g == m.g IN
    CASE g.pc = "created" -> ForPlugin(Start(m), 1, res)
      [] g.pc = "failed" -> [m EXCEPT !.g.pc = "done"]
      [] g.pc = "yielded" ->
            IF BreakAfterCall(plugins[g.i]) THEN ForPlugin(m, g.i + 1, res)
            ELSE IF g.j < Len(g.items) THEN Invoke(m, g.j + 1, res)
            ELSE ForPlugin(m, g.i + 1, res)

----------------------------------------------------------------------------
\* The inputs of a run.
Attrs == {[has |-> FALSE, val |-> <<>>],
          [has |-> TRUE, val |-> <<Wildcard>>],
          [has |-> TRUE, val |-> <<"a">>]}

Plugin(order, families, hosts, args) ==
    [order |-> order,
     hasFamilies |-> families.has, families |-> families.val,
     hasHosts |-> hosts.has, hosts |-> hosts.val,
     args |-> args]

\* The plug-ins of a run: func is never called for a plug-in without
\* families, so one declaration of its process stands for both.
PluginTypes ==
    {Plugin(o, f, [has |-> TRUE, val |-> <<Wildcard>>], a) :
        o \in Orders, f \in Attrs, a \in {{"context"}, {"instance"}}}
    \ {Plugin(o, [has |-> FALSE, val |-> <<>>],
               [has |-> TRUE, val |-> <<Wildcard>>], {"instance"}) :
        o \in Orders}

PluginLists == SeqUpTo(PluginTypes, MaxPlugins)

\* The instances of a context, each with its own id.
Contexts ==
    {[k \in 1..Len(fs) |-> [id |-> k, family |-> fs[k]]] :
        fs \in SeqUpTo(Families, MaxInstances)}

FuncResults == {"ok", "error", "raise"}

\* A call of a pure function: its arguments as given, as they are now, and
\* what it returned.
NoPure ==
    [fn |-> "none", order |-> 0, errorOrders |-> <<>>, plugins |-> <<>>,
     given |-> <<>>, tag |-> None, returned |-> FALSE, ret |-> FALSE,
     list |-> <<>>, instances |-> <<>>, givenInstances |-> <<>>,
     plugin |-> Plugin(1, [has |-> FALSE, val |-> <<>>],
                       [has |-> FALSE, val |-> <<>>], {"context"})]

\* A run of process over a fixed context object. The registered test of a
\* fresh module is default_test, the one deregister_test restores.
Init ==
    /\ plugins \in PluginLists
    /\ context \in Contexts
    /\ ctxCallable = FALSE
    /\ registered_test = "default_test"
    /\ next_plugin = 0
    /\ next_instance = 0
    /\ runs = [r \in RunIds |-> NoRun]
    /\ pure = NoPure

\* Call as if process were an ordinary function: the body runs up to its
\* first outcome at the call.
Call_eager(r, test) ==
    /\ runs[r].pc = "none"
    /\ \E res \in FuncResults :
         LET m == Resume(Machine([NoRun EXCEPT !.pc = "created",
                                               !.testArg = test,
                                               !.test = test,
                                               !.regAtCall = registered_test]),
                         res)
         IN  /\ runs' = [runs EXCEPT ![r] = m.g]
             /\ next_plugin' = m.np
             /\ next_instance' = m.ni
    /\ UNCHANGED <<plugins, context, ctxCallable, registered_test, pure>>

\* process(func, plugins, context, test): creates the generator; no line of
\* the body runs yet.
Call(r, test) ==
    /\ runs[r].pc = "none"
    /\ runs' = [runs EXCEPT ![r] = [NoRun EXCEPT !.pc = "created",
                                                 !.testArg = test,
                                                 !.test = test,
                                                 !.regAtCall = registered_test]]
    /\ UNCHANGED <<plugins, context, ctxCallable, registered_test,
                   next_plugin, next_instance, pure>>

\* next(generator): the consumer pulls one outcome. The last pull of a run
\* yields none: the generator returns, or an exception leaves it.
Pull(r) ==
    /\ runs[r].pc \in {"created", "yielded", "failed"}
    /\ \E res \in FuncResults :
         LET m == Resume(Machine([runs[r] EXCEPT !.pulls = @ + 1,
                                                 !.last = NoOutcome,
                                                 !.call = NoCall]), res)
         IN  /\ runs' = [runs EXCEPT ![r] = m.g]
             /\ next_plugin' = m.np
             /\ next_instance' = m.ni
    /\ UNCHANGED <<plugins, context, ctxCallable, registered_test, pure>>

\* What a call of func may do to the context c: leave it as it is, add an
\* instance to it, or change the family of one of its instances.
Mutations(c) ==
    {c}
    \cup {Append(c, [id |-> Len(c) + 1, family |-> f]) :
             f \in {x \in Families : Len(c) <= MaxInstances}}
    \cup {[c EXCEPT ![k].family = f] : k \in 1..Len(c), f \in Families}

\* next(generator) with a func that changes the context it is given and
\* returns a result without error.
PullMutating(r) ==
    /\ runs[r].pc \in {"created", "yielded", "failed"}
    /\ LET m == Resume(Machine([runs[r] EXCEPT !.pulls = @ + 1,
                                               !.last = NoOutcome,
                                               !.call = NoCall]), "ok")
       IN  /\ runs' = [runs EXCEPT ![r] = m.g]
           /\ next_plugin' = m.np
           /\ next_instance' = m.ni
           /\ context' \in IF m.g.call.plugin # 0 THEN Mutations(context)
                                                  ELSE {context}
    /\ UNCHANGED <<plugins, ctxCallable, registered_test, pure>>

\* register_test(test), line 212.
register_test(test) ==
    /\ registered_test' = test
    /\ UNCHANGED <<plugins, context, ctxCallable, next_plugin, next_instance,
                   runs, pure>>

\* deregister_test(), line 222.
deregister_test ==
    /\ registered_test' = "default_test"
    /\ UNCHANGED <<plugins, context, ctxCallable, next_plugin, next_instance,
                   runs, pure>>

\* A run of process with the default test registered.
Next ==
    \/ \E test \in {None, "stop_test"} : Call("A", test)
    \/ Pull("A")

Spec == Init /\ [][Next]_vars

----------------------------------------------------------------------------
\* Runs of process between calls of register_test and deregister_test, over
\* plug-ins that run whatever the context holds.
RegPluginTypes == {p \in PluginTypes : p.hasFamilies /\ In(Wildcard, p.families)}

RegInit ==
    /\ plugins \in SeqUpTo(RegPluginTypes, MaxPlugins)
    /\ context \in Contexts
    /\ ctxCallable = FALSE
    /\ registered_test = "default_test"
    /\ next_plugin = 0
    /\ next_instance = 0
    /\ runs = [r \in RunIds |-> NoRun]
    /\ pure = NoPure

RegNext ==
    \/ \E test \in {None, "stop_test"} : Call("A", test)
    \/ Pull("A")
    \/ register_test("my_test")
    \/ deregister_test

SpecReg == RegInit /\ [][RegNext]_vars

----------------------------------------------------------------------------
\* A run of process over a fixed context object or over a callable context,
\* under a test that fails after any error whatever the order, over plug-ins
\* of one order that have families.
CtxPluginTypes == {p \in PluginTypes : p.hasFamilies /\ p.order = 1}

CtxInit ==
    /\ plugins \in SeqUpTo(CtxPluginTypes, MaxPlugins)
    /\ context \in Contexts
    /\ ctxCallable \in BOOLEAN
    /\ registered_test = "default_test"
    /\ next_plugin = 0
    /\ next_instance = 0
    /\ runs = [r \in RunIds |-> NoRun]
    /\ pure = NoPure

CtxNext ==
    \/ Call("A", "clean_test")
    \/ Pull("A")

SpecCtx == CtxInit /\ [][CtxNext]_vars

----------------------------------------------------------------------------
\* Two runs of process over the same plug-ins and context, their pulls
\* interleaved by the consumer.
TwoPluginTypes ==
    {Plugin(1, [has |-> TRUE, val |-> <<Wildcard>>],
            [has |-> TRUE, val |-> <<Wildcard>>], {"instance"}),
     Plugin(2, [has |-> TRUE, val |-> <<"a">>],
            [has |-> TRUE, val |-> <<Wildcard>>], {"instance"})}

TwoContexts == {c \in Contexts : \A k \in 1..Len(c) : c[k].family = "a"}

TwoInit ==
    /\ plugins \in SeqUpTo(TwoPluginTypes, MaxPlugins)
    /\ context \in TwoContexts
    /\ ctxCallable = TRUE
    /\ registered_test = "default_test"
    /\ next_plugin = 0
    /\ next_instance = 0
    /\ runs = [r \in RunIds |-> NoRun]
    /\ pure = NoPure

TwoNext ==
    \/ Call("A", None)
    \/ Call("B", None)
    \/ Pull("A")
    \/ Pull("B")

SpecTwo == TwoInit /\ [][TwoNext]_vars

----------------------------------------------------------------------------
\* A run of process under the default test over a list one plug-in longer
\* than MaxPlugins: a validator that runs whatever the context holds, a
\* validator without families, and an extractor of family "a".
AbortPluginTypes ==
    {Plugin(1, [has |-> TRUE, val |-> <<Wildcard>>],
            [has |-> TRUE, val |-> <<Wildcard>>], {"context"}),
     Plugin(1, [has |-> FALSE, val |-> <<>>],
            [has |-> TRUE, val |-> <<Wildcard>>], {"context"}),
     Plugin(2, [has |-> TRUE, val |-> <<"a">>],
            [has |-> TRUE, val |-> <<Wildcard>>], {"context"})}

AbortInit ==
    /\ plugins \in [1..(MaxPlugins + 1) -> AbortPluginTypes]
    /\ context \in TwoContexts
    /\ ctxCallable = FALSE
    /\ registered_test = "default_test"
    /\ next_plugin = 0
    /\ next_instance = 0
    /\ runs = [r \in RunIds |-> NoRun]
    /\ pure = NoPure

AbortNext ==
    \/ Call("A", None)
    \/ Pull("A")

SpecAbort == AbortInit /\ [][AbortNext]_vars

----------------------------------------------------------------------------
\* A run of process over a fixed context object that func changes: over
\* validators that are called for each of their instances.
MutPluginTypes ==
    {p \in PluginTypes : p.order = 1 /\ p.hasFamilies /\ "instance" \in p.args}

MutInit ==
    /\ plugins \in SeqUpTo(MutPluginTypes, MaxPlugins)
    /\ context \in Contexts
    /\ ctxCallable = FALSE
    /\ registered_test = "default_test"
    /\ next_plugin = 0
    /\ next_instance = 0
    /\ runs = [r \in RunIds |-> NoRun]
    /\ pure = NoPure

MutNext ==
    \/ Call("A", None)
    \/ PullMutating("A")

SpecMut == MutInit /\ [][MutNext]_vars

----------------------------------------------------------------------------
\* Calls of the pure functions.
MaxOrder == 3     \* orders given to default_test are 0..MaxOrder
MaxErrors == 2    \* longest errorOrders given to default_test

PureAttrs == {[has |-> FALSE, val |-> <<>>],
              [has |-> TRUE, val |-> <<Wildcard>>],
              [has |-> TRUE, val |-> <<"a">>],
              [has |-> TRUE, val |-> <<"b", "a">>]}

PurePluginTypes ==
    {Plugin(1, f, h, {"context"}) : f \in PureAttrs, h \in PureAttrs}

Tags == {"a", "b", "c"}

\* The instance lists and plug-ins given to instances_by_plugin.
PureInstanceLists ==
    {[k \in 1..Len(fs) |-> [id |-> k, family |-> fs[k]]] :
        fs \in SeqUpTo(Tags, MaxInstances)}

PureFamilyPlugins ==
    {Plugin(1, f, [has |-> TRUE, val |-> <<Wildcard>>], {"context"}) :
        f \in PureAttrs}

PureCalls ==
    {[NoPure EXCEPT !.fn = "default_test", !.order = o, !.errorOrders = e] :
        o \in 0..MaxOrder, e \in SeqUpTo(0..MaxOrder, MaxErrors)}
    \cup
    {[NoPure EXCEPT !.fn = f, !.plugins = ps, !.given = ps, !.tag = t] :
        f \in {"plugins_by_family", "plugins_by_host"},
        ps \in SeqUpTo(PurePluginTypes, MaxPlugins), t \in Tags}
    \cup
    {[NoPure EXCEPT !.fn = "instances_by_plugin", !.instances = is,
                    !.givenInstances = is, !.plugin = p] :
        is \in PureInstanceLists, p \in PureFamilyPlugins}

PureInit ==
    /\ plugins = <<>>
    /\ context = <<>>
    /\ ctxCallable = FALSE
    /\ registered_test = "default_test"
    /\ next_plugin = 0
    /\ next_instance = 0
    /\ runs = [r \in RunIds |-> NoRun]
    /\ pure \in PureCalls

call_default_test ==
    /\ pure.fn = "default_test" /\ ~pure.returned
    /\ pure' = [pure EXCEPT !.returned = TRUE,
                            !.ret = default_test(pure.order, pure.errorOrders)]
    /\ UNCHANGED <<plugins, context, ctxCallable, registered_test,
                   next_plugin, next_instance, runs>>

call_plugins_by_family ==
    /\ pure.fn = "plugins_by_family" /\ ~pure.returned
    /\ pure' = [pure EXCEPT !.returned = TRUE,
                            !.list = plugins_by_family(pure.plugins, pure.tag)]
    /\ UNCHANGED <<plugins, context, ctxCallable, registered_test,
                   next_plugin, next_instance, runs>>

call_plugins_by_host ==
    /\ pure.fn = "plugins_by_host" /\ ~pure.returned
    /\ pure' = [pure EXCEPT !.returned = TRUE,
                            !.list = plugins_by_host(pure.plugins, pure.tag)]
    /\ UNCHANGED <<plugins, context, ctxCallable, registered_test,
                   next_plugin, next_instance, runs>>

call_instances_by_plugin ==
    /\ pure.fn = "instances_by_plugin" /\ ~pure.returned
    /\ pure' = [pure EXCEPT !.returned = TRUE,
                            !.list = instances_by_plugin(pure.instances,
                                                         pure.plugin)]
    /\ UNCHANGED <<plugins, context, ctxCallable, registered_test,
                   next_plugin, next_instance, runs>>

PureNext ==
    \/ call_default_test
    \/ call_plugins_by_family
    \/ call_plugins_by_host
    \/ call_instances_by_plugin

SpecPure == PureInit /\ [][PureNext]_vars

----------------------------------------------------------------------------
\* Properties of a run. A is the run the specifications start.
A == runs["A"]

Positions == 1..Len(plugins)

HasWildcard(plugin) == plugin.hasFamilies /\ In(Wildcard, plugin.families)

\* The orders of the plug-ins a result of which had error set.
ErrorsSoFar(g) == {plugins[k].order : k \in {n \in Positions : g.erred[n]}}

Elems(s) == {s[k] : k \in 1..Len(s)}

NoDuplicates(s) == \A a, b \in 1..Len(s) : s[a] = s[b] => a = b

\* C1: when the test returns false for the plug-in at position k, the run
\* yields exactly one TestFailed, whose vars hold the order of plugins[k] and
\* the orders at which errors were recorded so far; it is the last outcome
\* of the run, and func is called neither for plugins[k] nor for a plug-in
\* after it.
C1_TestFailedEndsRun ==
    /\ A.nfailed <= 1
    /\ \A k \in Positions :
         A.tested[k] = "failed" =>
           /\ A.nfailed = 1
           /\ A.pc \in {"failed", "done"}
           /\ A.pc = "failed" =>
                 /\ A.last.kind = "TestFailed"
                 /\ A.last.order = plugins[k].order
                 /\ Elems(A.last.errorOrders) = ErrorsSoFar(A)
                 /\ NoDuplicates(A.last.errorOrders)
           /\ A.pc = "done" => A.last.kind = "none"
           /\ \A n \in k..Len(plugins) : A.ncalls[n] = 0 /\ A.nouts[n] = 0

\* A run that the default test stopped at its second plug-in, after an error
\* of the first.
C1_Witness ==
    /\ Len(plugins) = 2
    /\ A.tested[2] = "failed"
    /\ A.pc = "failed"
    /\ A.last.errorOrders = <<1>>
    /\ A.ncalls[1] >= 1

\* C2: default_test returns false exactly when order >= 2 and errorOrders
\* holds a value < 2; so it is false for (2, [1]) and true for (2, [3]) and
\* (1, [0]).
C2_DefaultTest ==
    /\ (pure.fn = "default_test" /\ pure.returned) =>
          (pure.ret = FALSE <=>
             (pure.order >= 2 /\ \E e \in Elems(pure.errorOrders) : e < 2))
    /\ default_test(2, <<1>>) = FALSE
    /\ default_test(2, <<3>>) = TRUE
    /\ default_test(1, <<0>>) = TRUE

\* default_test has returned false for order 2 after an error at order 1.
C2_Witness ==
    /\ pure.fn = "default_test" /\ pure.returned
    /\ pure.order = 2 /\ pure.errorOrders = <<1>>
    /\ pure.ret = FALSE

\* C3: in a run under default_test in which no result has error set, no
\* TestFailed is yielded, and once the run has ended func has been called
\* for every plug-in that has a compatible instance or the wildcard among
\* its families, no plug-in being called before one that precedes it in the
\* list.
C3_NoErrorRunsEveryPlugin ==
    (A.test = "default_test" /\ ErrorsSoFar(A) = {}) =>
       /\ A.nfailed = 0
       /\ A.pc \in {"done", "raised"} =>
             \A k \in Positions :
                (\/ Len(instances_by_plugin(context, plugins[k])) > 0
                 \/ HasWildcard(plugins[k]))
                => A.ncalls[k] >= 1
       /\ A.call.plugin # 0 =>
             \A n \in Positions : n > A.call.plugin => A.ncalls[n] = 0

\* C4: errorOrders holds no order twice, and a pull leaves it unchanged or
\* appends the order of the plug-in whose result had error set, which it
\* does exactly when that order was not yet in it.
C4_Step ==
    LET g == runs["A"]
        h == runs'["A"]
        erring == h.pulls = g.pulls + 1 /\ h.call.res = "error"
        order == plugins[h.call.plugin].order
    IN  /\ NoDuplicates(h.errorOrders)
        /\ ~erring => h.errorOrders = g.errorOrders
        /\ (erring /\ In(order, g.errorOrders)) =>
              h.errorOrders = g.errorOrders
        /\ (erring /\ ~In(order, g.errorOrders)) =>
              h.errorOrders = Append(g.errorOrders, order)

C4_ErrorOrdersGrow == [][C4_Step]_vars

\* Two plug-ins of the same order have both returned an error: the second
\* error was recorded at an order already present.
C4_Witness ==
    /\ Len(plugins) = 2
    /\ A.erred[1] /\ A.erred[2]
    /\ A.call.res = "error" /\ A.call.plugin = 2
    /\ A.errorOrders = <<plugins[2].order>>

\* The sum of the counts f.
Sum(f) == LET RECURSIVE S(_)
              S(k) == IF k = 0 THEN 0 ELSE f[k] + S(k - 1)
          IN  S(Len(f))

\* C5: when a call of func raises, the pull yields exactly one outcome, the
\* exception, errorOrders stays as it was, and the frame of the generator is
\* left as a result without error would have left it: the remaining
\* instances and plug-ins are processed in the same way.
C5_Step ==
    LET g == runs["A"]
        h == runs'["A"]
        ok == Resume(Machine([g EXCEPT !.pulls = @ + 1,
                                       !.last = NoOutcome,
                                       !.call = NoCall]), "ok")
    IN  (h.pulls = g.pulls + 1 /\ h.call.res = "raise") =>
          /\ h.last.kind = "exception"
          /\ h.last.plugin = h.call.plugin
          /\ h.last.instance = h.call.instance
          /\ Sum(h.nouts) + h.nfailed = Sum(g.nouts) + g.nfailed + 1
          /\ Sum(h.ncalls) = Sum(g.ncalls) + 1
          /\ h.errorOrders = g.errorOrders
          /\ h.erred = g.erred
          /\ h.pc = "yielded"
          /\ Frame(h) = Frame(ok.g)
          /\ next_plugin' = ok.np /\ next_instance' = ok.ni

C5_ExceptionIsYielded == [][C5_Step]_vars

\* func has raised for the first of two instances of a plug-in that takes
\* an instance, and another plug-in follows.
C5_Witness ==
    /\ Len(plugins) = 2
    /\ A.pc = "yielded" /\ A.i = 1 /\ A.j = 1 /\ Len(A.items) = 2
    /\ A.call.res = "raise" /\ A.last.kind = "exception"
    /\ "instance" \in plugins[1].args

\* C6: func is called at most once for a plug-in whose process declares no
\* `instance` parameter.
C6_OncePerContextPlugin ==
    \A k \in Positions :
       "instance" \notin plugins[k].args => A.ncalls[k] <= 1

\* A run has ended in which a plug-in without `instance` parameter had two
\* compatible instances and was called once.
C6_Witness ==
    /\ A.pc = "done"
    /\ \E k \in Positions :
         /\ "instance" \notin plugins[k].args
         /\ Len(instances_by_plugin(context, plugins[k])) = 2
         /\ A.ncalls[k] = 1

\* C7: a plug-in with the wildcard among its families that passed the test
\* while the context had no compatible instance is called exactly once, with
\* instance None, and has exactly one outcome, a result or an exception.
C7_WildcardRunsOnce ==
    \A k \in Positions :
       (/\ A.tested[k] = "passed"
        /\ HasWildcard(plugins[k])
        /\ Len(instances_by_plugin(context, plugins[k])) = 0)
       =>
        /\ A.ncalls[k] = 1
        /\ A.nouts[k] = 1
        /\ A.call.plugin = k =>
              /\ A.call.instance = 0
              /\ A.last.plugin = k /\ A.last.instance = 0
              /\ A.last.kind \in {"result", "exception"}

\* A run over an empty context has ended after calling a wildcard plug-in.
C7_Witness ==
    /\ context = <<>>
    /\ A.pc = "done"
    /\ \E k \in Positions :
         /\ HasWildcard(plugins[k]) /\ "instance" \in plugins[k].args
         /\ A.tested[k] = "passed" /\ A.ncalls[k] = 1

\* The run has started: its body has run up to a yield or to its end.
Started(g) == g.pc \notin {"none", "created"}

\* C8 as stated: a run called without a test uses the test that was
\* registered when process was called.
C8_TestOfTheCall ==
    (Started(A) /\ A.testArg = None) =>
       /\ A.test = A.regAtCall
       /\ \A k \in Positions : A.tested[k] # "no" => A.used[k] = A.regAtCall

\* C8 as amended: a run called without a test uses, for every plug-in, the
\* test that was registered when its body started, at the first pull.
C8_TestOfTheFirstPull ==
    (Started(A) /\ A.testArg = None) =>
       /\ A.test = A.regAtStart
       /\ \A k \in Positions : A.tested[k] # "no" => A.used[k] = A.regAtStart

\* A run called under default_test and started under my_test has evaluated
\* my_test for its second plug-in while default_test was registered again.
C8_Witness ==
    /\ Len(plugins) = 2
    /\ A.testArg = None
    /\ A.regAtCall = "default_test" /\ A.regAtStart = "my_test"
    /\ registered_test = "default_test"
    /\ A.used[2] = "my_test"

\* C9: after the first pull of a run no step changes the test of the run,
\* every plug-in is tested with that test, and a run given a test never has
\* another one.
C9_Step ==
    LET g == runs["A"]
        h == runs'["A"]
    IN  /\ Started(g) => h.test = g.test
        /\ \A k \in Positions : h.tested[k] # "no" => h.used[k] = h.test
        /\ (h.pc # "none" /\ h.testArg # None) => h.test = h.testArg

C9_TestIsFixed == [][C9_Step]_vars

\* A run given stop_test has stopped at its second plug-in after my_test was
\* registered between its pulls.
C9_Witness ==
    /\ Len(plugins) = 2
    /\ A.testArg = "stop_test" /\ A.regAtStart = "default_test"
    /\ registered_test = "my_test"
    /\ A.used[2] = "stop_test" /\ A.tested[2] = "failed"

\* A plug-in is kept when it has the attribute and tag or "*" is in it.
Keeps(has, tags, tag) == has /\ (tag \in Elems(tags) \/ Wildcard \in Elems(tags))

\* C10: plugins_by_family returns the plug-ins that have families holding
\* the family or "*", in their order in the list, plugins_by_host the same
\* over hosts; a plug-in without the attribute is left out, and the list
\* given is left as it was.
C10_Filters ==
    pure.returned =>
      /\ pure.fn = "plugins_by_family" =>
            pure.list = SelectSeq(pure.given,
                          LAMBDA p : Keeps(p.hasFamilies, p.families, pure.tag))
      /\ pure.fn = "plugins_by_host" =>
            pure.list = SelectSeq(pure.given,
                          LAMBDA p : Keeps(p.hasHosts, p.hosts, pure.tag))
      /\ pure.plugins = pure.given

\* plugins_by_family has kept a wildcard plug-in and dropped one without
\* families.
C10_Witness ==
    /\ pure.fn = "plugins_by_family" /\ pure.returned
    /\ Len(pure.given) = 2 /\ Len(pure.list) = 1
    /\ ~pure.given[1].hasFamilies
    /\ pure.given[2].families = <<Wildcard>>
    /\ pure.tag = "b"

\* C11: instances_by_plugin returns the instances whose family is among the
\* families of the plug-in, all of them when "*" is among these, in their
\* order in the list given; for a plug-in without families it returns the
\* empty list; the list given is left as it was.
C11_InstancesByPlugin ==
    (pure.fn = "instances_by_plugin" /\ pure.returned) =>
      /\ pure.list =
            SelectSeq(pure.givenInstances,
                      LAMBDA x : /\ pure.plugin.hasFamilies
                                 /\ \/ x.family \in Elems(pure.plugin.families)
                                    \/ Wildcard \in Elems(pure.plugin.families))
      /\ (pure.plugin.hasFamilies /\ Wildcard \in Elems(pure.plugin.families))
            => pure.list = pure.givenInstances
      /\ ~pure.plugin.hasFamilies => pure.list = <<>>
      /\ pure.instances = pure.givenInstances

\* instances_by_plugin has kept the second of two instances and dropped the
\* first, whose family the plug-in does not have.
C11_Witness ==
    /\ pure.fn = "instances_by_plugin" /\ pure.returned
    /\ Len(pure.givenInstances) = 2
    /\ pure.plugin.families = <<"b", "a">>
    /\ pure.givenInstances[1].family = "c"
    /\ pure.givenInstances[2].family = "a"
    /\ pure.list = <<pure.givenInstances[2]>>

\* C12: a run works only when it is pulled. A step that is no pull of the
\* run leaves the whole run as it is (no test evaluation, no context
\* resolution, no func call), and the call of process does none of these; a
\* pull makes at most one func call, so the func calls of a run are never
\* more than its pulls.
C12_Step ==
    \A r \in RunIds :
       LET g == runs[r]
           h == runs'[r]
       IN  /\ h.pulls \in {g.pulls, g.pulls + 1}
           /\ (g.pc # "none" /\ h.pulls = g.pulls) => h = g
           /\ g.pc = "none" =>
                 /\ h.pulls = 0 /\ h.ctxCalls = 0
                 /\ Sum(h.nevals) = 0 /\ Sum(h.ncalls) = 0
           /\ Sum(h.ncalls) <= Sum(g.ncalls) + 1
           /\ Sum(h.ncalls) <= h.pulls

C12_WorkOnlyWhenPulled == [][C12_Step]_vars

\* The consumer has pulled one outcome of run A and then all of run B: the
\* second plug-in is still untested in run A.
C12_Witness ==
    /\ Len(plugins) = 2
    /\ A.pc = "yielded" /\ A.pulls = 1 /\ Sum(A.ncalls) = 1
    /\ A.i = 1 /\ A.tested[2] = "no"
    /\ runs["B"].pc = "done" /\ runs["B"].ncalls[2] >= 1

\* The plug-in at position k passed the test, has families without the
\* wildcard, and no instance of the context is compatible with it.
Discarded(g, k) ==
    /\ g.tested[k] = "passed"
    /\ plugins[k].hasFamilies /\ ~In(Wildcard, plugins[k].families)
    /\ Len(instances_by_plugin(context, plugins[k])) = 0

\* The position of the last plug-in func was called for, 0 when there is
\* none, and the instance of its last call.
LastCalled(g) ==
    LET called == {k \in Positions : g.ncalls[k] >= 1}
    IN  IF called = {} THEN 0
        ELSE CHOOSE k \in called : \A n \in called : n <= k

LastInstance(g) ==
    IF LastCalled(g) = 0 THEN 0
    ELSE LET k == LastCalled(g)
         IN  gen(instances_by_plugin(context, plugins[k]))[g.ncalls[k]].id

\* C13: for a plug-in that passed the test, has no compatible instance and
\* no wildcard among its families, func is not called and no outcome is
\* yielded; it records no error, and the pointers next_plugin and
\* next_instance stay at the last call made before it; the run goes on
\* with the plug-in after it, or ends when there is none.
C13_DiscardedPlugin ==
    Started(A) =>
      /\ \A k \in Positions :
           Discarded(A, k) =>
             /\ A.ncalls[k] = 0 /\ A.nouts[k] = 0
             /\ ~A.erred[k]
             /\ A.call.plugin # k /\ A.last.plugin # k
             /\ next_plugin # k
             /\ k < Len(plugins) => A.tested[k + 1] # "no"
             /\ k = Len(plugins) => A.pc = "done"
      /\ next_plugin = LastCalled(A)
      /\ next_instance = LastInstance(A)
      /\ Elems(A.errorOrders) = ErrorsSoFar(A)

\* A run has ended whose first plug-in returned an error for the one
\* instance and whose second plug-in was discarded: the pointers are still
\* at the call of the first.
C13_Witness ==
    /\ Len(plugins) = 2 /\ Len(context) = 1
    /\ A.pc = "done"
    /\ A.ncalls[1] = 1 /\ A.erred[1]
    /\ Discarded(A, 2)
    /\ next_plugin = 1 /\ next_instance = 1

\* The context object the plug-in at position k is given: the one the call of
\* the callable context made for it returned, or the fixed context.
CtxAt(g, k) ==
    IF ctxCallable
    THEN Cardinality({n \in 1..k : g.tested[n] = "passed"})
    ELSE 0

\* The instances func is called with for the plug-in at position k.
ItemsAt(g, k) == gen(instances_by_plugin(ContextOf(CtxAt(g, k)), plugins[k]))

\* C14 as stated: a callable context is called exactly once for each
\* plug-in the run reaches.
C14_OncePerPluginReached ==
    (ctxCallable /\ Started(A)) =>
       A.ctxCalls = Cardinality({k \in Positions : A.tested[k] # "no"})

\* C14 as amended: a callable context is called exactly once for each
\* plug-in that passes the test, and not for the plug-in at which the test
\* fails; the instances of the plug-in are those of the context that call
\* returned, and every func call for the plug-in is given that context. A
\* fixed context is never called and is the context of every func call.
C14_OncePerPluginPassed ==
    Started(A) =>
      /\ ctxCallable =>
            /\ A.ctxCalls = Cardinality({k \in Positions : A.tested[k] = "passed"})
            /\ A.ctx = A.ctxCalls
      /\ ~ctxCallable => A.ctxCalls = 0 /\ A.ctx = 0
      /\ A.call.plugin # 0 =>
            /\ A.call.context = CtxAt(A, A.call.plugin)
            /\ A.items = ItemsAt(A, A.call.plugin)
            /\ A.call.instance = A.items[A.j].id

\* A run over a callable context was stopped at its second plug-in: the
\* context was called for the first plug-in only. The context held one
\* instance at that call, although two are there by now.
C14_Witness ==
    /\ ctxCallable
    /\ Len(plugins) = 2 /\ Len(context) = 2
    /\ A.pc = "failed" /\ A.tested[2] = "failed"
    /\ A.ctxCalls = 1
    /\ A.ncalls[1] = 1 /\ "instance" \in plugins[1].args

\* The orders of the plug-ins at positions 1..n a result of which had error
\* set, each once, in the order of the plug-ins.
RECURSIVE ErrorsUpTo(_, _)
ErrorsUpTo(g, n) ==
    IF n = 0 THEN <<>>
    ELSE LET earlier == ErrorsUpTo(g, n - 1)
         IN  IF g.erred[n] /\ plugins[n].order \notin Elems(earlier)
             THEN Append(earlier, plugins[n].order)
             ELSE earlier

\* The loop is past the plug-in at position k.
Finished(g, k) == g.i > k \/ g.pc = "done"

\* C15: the test is evaluated once for each plug-in the run reaches and for
\* no other, before func is called for it, and its verdict is that of the
\* test on the errors of the plug-ins before it; once a plug-in has passed,
\* func is called for every instance of it (once if its process takes no
\* instance), whether or not a result of it had error set.
C15_TestOncePerPlugin ==
    Started(A) =>
      \A k \in Positions :
         /\ A.nevals[k] = IF k <= A.i THEN 1 ELSE 0
         /\ A.tested[k] # "no" <=> A.nevals[k] = 1
         /\ A.ncalls[k] >= 1 => A.tested[k] = "passed"
         /\ A.tested[k] # "no" =>
               (A.tested[k] = "passed" <=>
                  CallTest(A.used[k], plugins[k].order, ErrorsUpTo(A, k - 1)))
         /\ (A.tested[k] = "passed" /\ A.i = k /\ A.pc = "yielded") =>
               A.ncalls[k] = A.j
         /\ (A.tested[k] = "passed" /\ Finished(A, k)) =>
               A.ncalls[k] =
                  IF DiscardPlugin(
                        instances_by_plugin(ContextOf(CtxAt(A, k)), plugins[k]),
                        plugins[k]) = "yes"
                  THEN 0
                  ELSE IF "instance" \in plugins[k].args
                  THEN Len(ItemsAt(A, k))
                  ELSE 1

\* Under a test that fails after any error, func returned an error for the
\* first of two instances of a plug-in and was then called for the second.
C15_Witness ==
    /\ A.test = "clean_test"
    /\ A.pc = "yielded" /\ A.i = 1 /\ A.j = 2
    /\ A.erred[1] /\ A.call.res = "ok"
    /\ A.ncalls[1] = 2

\* C16: a run ends in one of two ways only. Aborted: the last outcome it
\* yielded is the one TestFailed of the run. Done: every plug-in of the list
\* was reached and no TestFailed was yielded. It never ends by an exception
\* that leaves the generator.
C16_AbortedOrDone ==
    /\ A.pc # "raised"
    /\ A.pc = "failed" => A.last.kind = "TestFailed" /\ A.nfailed = 1
    /\ A.pc = "done" =>
          \/ /\ A.nfailed = 1
             /\ \E k \in Positions : A.tested[k] = "failed"
          \/ /\ A.nfailed = 0
             /\ \A k \in Positions : A.tested[k] = "passed"

\* C20: a plug-in without families that passed the test is skipped: func is
\* not called for it, it has no outcome, no exception leaves the run, and
\* the plug-in after it is reached.
C20_NoFamiliesIsSkipped ==
    \A k \in Positions :
       (A.tested[k] = "passed" /\ ~plugins[k].hasFamilies) =>
          /\ A.ncalls[k] = 0 /\ A.nouts[k] = 0
          /\ A.pc # "raised"
          /\ k < Len(plugins) => A.tested[k + 1] # "no"
          /\ k = Len(plugins) => A.pc = "done"

\* The other of the two runs.
Other(r) == IF r = "A" THEN "B" ELSE "A"

\* C17: in either of two runs, when func is called for a plug-in and an
\* instance, next_plugin and next_instance are that plug-in and that
\* instance; and as long as the body of the other run has not started, they
\* still are when the consumer holds the outcome. (That they are not once
\* the other run is pulled is what C17_Witness reaches.)
C17_PointersAtCall ==
    \A r \in RunIds :
       LET g == runs[r] IN
       /\ g.call.plugin # 0 =>
             /\ g.call.next_plugin = g.call.plugin
             /\ g.call.next_instance = g.call.instance
       /\ (g.pc = "yielded" /\ ~Started(runs[Other(r)])) =>
             /\ next_plugin = g.i
             /\ next_instance = g.items[g.j].id

\* Run A has yielded the result of its second plug-in, the consumer has
\* then pulled run B for the first time, and the pointers are at the first
\* plug-in, the one run B called func for.
C17_Witness ==
    /\ Len(plugins) = 2
    /\ A.pc = "yielded" /\ A.i = 2 /\ A.last.kind = "result"
    /\ A.last.plugin = 2
    /\ runs["B"].pulls = 1 /\ runs["B"].call.plugin = 1
    /\ next_plugin = 1
    /\ next_plugin # A.last.plugin

\* The plug-in at position k has order >= 2 and comes after a plug-in of
\* order < 2 a result of which had error set.
BlockedAt(g, k) ==
    /\ plugins[k].order >= 2
    /\ \E n \in 1..(k - 1) : g.erred[n] /\ plugins[n].order < 2

\* C18: a run under default_test that was consumed to its end has aborted
\* exactly when some plug-in of order >= 2 comes after a plug-in of order < 2
\* a result of which had error set; the test failed at the first such
\* plug-in, and every plug-in before that one was tested and passed.
C18_AbortsAtFirstBlocked ==
    (A.test = "default_test" /\ A.pc \in {"done", "raised"}) =>
       /\ A.nfailed = 1 <=> \E k \in Positions : BlockedAt(A, k)
       /\ \A k \in Positions :
             A.tested[k] = "failed" <=>
                (BlockedAt(A, k) /\ \A n \in 1..(k - 1) : ~BlockedAt(A, n))
       /\ \A k \in Positions :
             (\A n \in 1..k : ~BlockedAt(A, n)) => A.tested[k] = "passed"

\* C19: the instances func is called with for a plug-in are those that were
\* compatible in the context as it was when the plug-in was reached, each
\* once and in order, whatever func does to the context during the calls
\* for that plug-in; and when a plug-in is reached, its instances, or that
\* it has none and is discarded, are computed from the context as the
\* calls made so far have left it.
C19_Step ==
    LET g == runs["A"]
        h == runs'["A"]
        samePass == g.pc = "yielded" /\ h.i = g.i /\ h.pc = "yielded"
        leaves == g.pc = "yielded" /\ ~samePass
        from == IF g.pc = "yielded" THEN g.i + 1 ELSE 1
        upto == IF h.pc = "yielded" THEN h.i - 1 ELSE Len(plugins)
    IN  h.pulls = g.pulls + 1 =>
          /\ samePass =>
                /\ h.items = g.items
                /\ h.j = g.j + 1
                /\ h.call.instance = g.items[g.j + 1].id
          /\ leaves => g.j = Len(g.items)
          /\ (h.pc = "yielded" /\ ~samePass) =>
                /\ h.items = gen(instances_by_plugin(context, plugins[h.i]))
                /\ h.j = 1
                /\ h.call.instance = h.items[1].id
          /\ ~samePass =>
                \A n \in from..upto :
                   DiscardPlugin(instances_by_plugin(context, plugins[n]),
                                 plugins[n]) = "yes"

C19_InstancesFixedWhenReached == [][C19_Step]_vars

\* func was called once for the first plug-in, which runs for every
\* instance, and added a second instance to the context; it is now called
\* for the second plug-in, which has two instances.
C19_Witness ==
    /\ Len(plugins) = 2
    /\ HasWildcard(plugins[1])
    /\ A.ncalls[1] = 1
    /\ A.pc = "yielded" /\ A.i = 2 /\ Len(A.items) = 2
    /\ Len(context) >= 2

====
